---------------------------- MODULE Spec2Model ----------------------------
(***************************************************************************)
(* The conversation engine of the chatbot (src/chatbot/agent.py): the      *)
(* keyword intent classifier, the entity extractor, the conversation       *)
(* memory with its state-update rule, and the response dispatcher.         *)
(*                                                                         *)
(* Text is a sequence of one-character strings, so that Python's           *)
(* `keyword in text`, `text.lower()` and `text.strip()` are computed on    *)
(* the characters.  Optional values are <<>> (None) or <<v>>.  Confidence  *)
(* scores are in hundredths (0.85 is 85).  The timestamp of a history      *)
(* entry is the wall clock and is left out.                                *)
(***************************************************************************)
EXTENDS Integers, Sequences, FiniteSets, TLC

\* At most MaxTurns respond calls are made in one behaviour.
MaxTurns == 3
\* A query given to the classifier alone is made of at most MaxWords words.
MaxWords == 3

\* respond calls in a short conversation
MaxShort == 2

\* HTTP requests received by the service
MaxRequests == 3

VARIABLES
    memory,      \* EnhancedChatbotAgent.memory : ConversationMemory
    prev,        \* memory as it was before the last call
    lastCall,    \* "none", "respond" or "reset": the last call made on the agent
    query,       \* the query of the last respond call / the query being composed
    response,    \* what the last respond call returned
    lookup,      \* the outlet-directory query the last respond call made, if any
    searched,    \* number of product-search calls the last respond call made
    responded,   \* number of respond calls that have returned
    typed,       \* number of words of the query being composed
    result,      \* what detect_intent returned for the composed query, if called
    beats,       \* the ties of the query classified before this one
    requests,    \* main.py: the HTTP request of each client and how far its handler is
    running,     \* main.py: the client whose handler holds the event loop, or 0
    received     \* main.py: number of HTTP requests received

vars == <<memory, prev, lastCall, query, response, lookup, searched, responded,
          typed, result, beats, requests, running, received>>

---------------------------------------------------------------------------
\* Optional values

None == <<>>

Some(v) == <<v>>

---------------------------------------------------------------------------
\* Python string operations

\* sub in s
Contains(sub, s) ==
    \E i \in 1..(Len(s) - Len(sub) + 1) : SubSeq(s, i, i + Len(sub) - 1) = sub

UpperCase == <<"A", "B", "C", "D", "E", "F", "G", "H", "I", "J", "K", "L", "M", "N", "O", "P", "Q", "R", "S", "T", "U", "V", "W", "X", "Y", "Z">>

LowerCase == <<"a", "b", "c", "d", "e", "f", "g", "h", "i", "j", "k", "l", "m", "n", "o", "p", "q", "r", "s", "t", "u", "v", "w", "x", "y", "z">>

lower_char(c) ==
    IF \E k \in 1..Len(UpperCase) : UpperCase[k] = c
    THEN LowerCase[CHOOSE k \in 1..Len(UpperCase) : UpperCase[k] = c]
    ELSE c

\* s.lower(), from index i on
RECURSIVE lower_from(_, _)
lower_from(s, i) ==
    IF i > Len(s) THEN <<>> ELSE <<lower_char(s[i])>> \o lower_from(s, i + 1)

\* s.lower()
lower(s) == lower_from(s, 1)

Whitespace == {" ", "\t", "\n"}

\* not query or not query.strip()
is_blank(s) == \A i \in 1..Len(s) : s[i] \in Whitespace

\* any(keyword in text for keyword in keywords)
any_in(keywords, text) == \E k \in 1..Len(keywords) : Contains(keywords[k], text)

RECURSIVE last_from(_, _, _, _)
RECURSIVE first_from(_, _, _)

\* the loop `for x in xs: if x in text: found = x` without its break, from entry k on
last_from(xs, text, k, found) ==
    IF k > Len(xs) THEN found
    ELSE IF Contains(xs[k], text) THEN last_from(xs, text, k + 1, Some(xs[k]))
    ELSE last_from(xs, text, k + 1, found)

\* the entry that a loop without break leaves: the last entry of xs that text contains
first_in_no_break(xs, text) == last_from(xs, text, 1, None)

\* the loop `for x in xs: if x in text: found = x; break`, from entry k on
first_from(xs, text, k) ==
    IF k > Len(xs) THEN None
    ELSE IF Contains(xs[k], text) THEN Some(xs[k])
    ELSE first_from(xs, text, k + 1)

\* for x in xs: if x in text: ... break     (what the loop finds, or None)
first_in(xs, text) == first_from(xs, text, 1)

Digits == <<"0", "1", "2", "3", "4", "5", "6", "7", "8", "9">>

is_digit(c) == \E k \in 1..Len(Digits) : Digits[k] = c

digit_value(c) == (CHOOSE k \in 1..Len(Digits) : Digits[k] = c) - 1

\* first index >= i of s that holds no digit (Len(s) + 1 if there is none)
RECURSIVE digits_end(_, _)
digits_end(s, i) ==
    IF i <= Len(s) /\ is_digit(s[i]) THEN digits_end(s, i + 1) ELSE i

\* re.match(r"[-+]?\d*\.?\d+") at index i of s: the index after the match, 0 if none
match_number(s, i) ==
    LET j == IF s[i] \in {"-", "+"} THEN i + 1 ELSE i
        d == digits_end(s, j)
        f == IF d <= Len(s) /\ s[d] = "." THEN digits_end(s, d + 1) ELSE d
    IN  IF f > d + 1 THEN f
        ELSE IF d > j THEN d
        ELSE 0

\* re.findall(r"[-+]?\d*\.?\d+", s), scanning from index i
RECURSIVE findall_numbers(_, _)
findall_numbers(s, i) ==
    IF i > Len(s) THEN <<>>
    ELSE LET e == match_number(s, i)
         IN  IF e = 0 THEN findall_numbers(s, i + 1)
             ELSE <<SubSeq(s, i, e - 1)>> \o findall_numbers(s, e)

\* the digits of tok from index i on, read as a decimal integer on top of acc
RECURSIVE read_digits(_, _, _)
read_digits(tok, i, acc) ==
    IF i > Len(tok) THEN acc
    ELSE IF is_digit(tok[i]) THEN read_digits(tok, i + 1, 10 * acc + digit_value(tok[i]))
    ELSE read_digits(tok, i + 1, acc)

RECURSIVE pow10(_)
pow10(n) == IF n = 0 THEN 1 ELSE 10 * pow10(n - 1)

RECURSIVE gcd(_, _)
gcd(a, b) == IF b = 0 THEN a ELSE gcd(b, a % b)

abs(a) == IF a < 0 THEN -a ELSE a

\* a number as the fraction <<n, d>> in lowest terms, d > 0
fraction(n, d) ==
    LET s == IF d < 0 THEN -1 ELSE 1
        g == gcd(abs(n), abs(d))
    IN  <<(s * n) \div g, (s * d) \div g>>

\* float(tok) for a token matched by the number pattern
float(tok) ==
    LET neg  == tok[1] = "-"
        dot  == IF \E k \in 1..Len(tok) : tok[k] = "."
                THEN CHOOSE k \in 1..Len(tok) : tok[k] = "."
                ELSE Len(tok) + 1
        frac == IF dot > Len(tok) THEN 0 ELSE Len(tok) - dot
        n    == read_digits(tok, 1, 0)
    IN  fraction(IF neg THEN -n ELSE n, pow10(frac))

---------------------------------------------------------------------------
\* chatbot/calculator.py

\* calculate with a division that answers 0 for a zero divisor instead of raising
calculate_unchecked(a, b, op) ==
    IF op = "add" THEN <<"ok", fraction(a[1] * b[2] + b[1] * a[2], a[2] * b[2])>>
    ELSE IF op = "sub" THEN <<"ok", fraction(a[1] * b[2] - b[1] * a[2], a[2] * b[2])>>
    ELSE IF op = "mul" THEN <<"ok", fraction(a[1] * b[1], a[2] * b[2])>>
    ELSE IF op = "div" THEN
        IF b[1] = 0 THEN <<"ok", <<0, 1>>>>
        ELSE <<"ok", fraction(a[1] * b[2], a[2] * b[1])>>
    ELSE <<"ValueError", <<0, 1>>>>

\* calculate(a, b, op): <<"ok", value>> or <<"ValueError", <<0, 1>>>>
calculate(a, b, op) ==
    IF op = "add" THEN <<"ok", fraction(a[1] * b[2] + b[1] * a[2], a[2] * b[2])>>
    ELSE IF op = "sub" THEN <<"ok", fraction(a[1] * b[2] - b[1] * a[2], a[2] * b[2])>>
    ELSE IF op = "mul" THEN <<"ok", fraction(a[1] * b[1], a[2] * b[2])>>
    ELSE IF op = "div" THEN
        IF b[1] = 0 THEN <<"ValueError", <<0, 1>>>>
        ELSE <<"ok", fraction(a[1] * b[2], a[2] * b[1])>>
    ELSE <<"ValueError", <<0, 1>>>>

---------------------------------------------------------------------------
\* class Intent, class ConversationState

OUTLET_INQUIRY == "outlet_inquiry"
TIME_INQUIRY   == "time_inquiry"
CALCULATION    == "calculation"
PRODUCT_SEARCH == "product_search"
GREETING       == "greeting"
UNKNOWN        == "unknown"

Intent == {OUTLET_INQUIRY, TIME_INQUIRY, CALCULATION, PRODUCT_SEARCH, GREETING, UNKNOWN}

INITIAL            == "initial"
LOCATION_CONFIRMED == "location_confirmed"
OUTLET_CONFIRMED   == "outlet_confirmed"
COMPLETED          == "completed"

ConversationState == {INITIAL, LOCATION_CONFIRMED, OUTLET_CONFIRMED, COMPLETED}

\* ConversationMemory(): the dataclass defaults and __post_init__
ConversationMemory ==
    [location             |-> None,
     outlet               |-> None,
     current_state        |-> INITIAL,
     conversation_history |-> <<>>,
     confidence_score     |-> 0]

\* add_interaction putting the new entry in front of the older ones
add_interaction_in_front(mem, user_input, bot_response, intent) ==
    [mem EXCEPT !.conversation_history =
        << [user_input   |-> user_input,
            bot_response |-> bot_response,
            intent       |-> intent] >> \o @]

\* ConversationMemory.add_interaction
add_interaction(mem, user_input, bot_response, intent) ==
    [mem EXCEPT !.conversation_history =
        Append(@, [user_input   |-> user_input,
                   bot_response |-> bot_response,
                   intent       |-> intent])]

\* reset with the confidence score forgotten
reset_keeps_confidence(mem) ==
    [mem EXCEPT !.location      = None,
                !.outlet        = None,
                !.current_state = INITIAL]

\* ConversationMemory.reset
reset(mem) ==
    [mem EXCEPT !.location         = None,
                !.outlet           = None,
                !.current_state    = INITIAL,
                !.confidence_score = 0]

---------------------------------------------------------------------------
\* EnhancedChatbotAgent.__init__

supported_locations ==
    << <<"p", "e", "t", "a", "l", "i", "n", "g", " ", "j", "a", "y", "a">>,
       <<"k", "l">>,
       <<"k", "u", "a", "l", "a", " ", "l", "u", "m", "p", "u", "r">>,
       <<"s", "u", "b", "a", "n", "g">>,
       <<"p", "u", "c", "h", "o", "n", "g">> >>

\* supported_outlets without the spelling 'ss2', which the fallback knows
supported_outlets_without_ss2 ==
    << <<"s", "s", " ", "2">>, <<"d", "a", "m", "a", "n", "s", "a", "r", "a">>, <<"b", "u", "k", "i", "t", " ", "b", "i", "n", "t", "a", "n", "g">>, <<"s", "u", "b", "a", "n", "g">>, <<"p", "u", "c", "h", "o", "n", "g">>,
       <<"1", " ", "u", "t", "a", "m", "a">>, <<"o", "n", "e", " ", "u", "t", "a", "m", "a">>, <<"k", "l", "c", "c">>, <<"m", "i", "d", " ", "v", "a", "l", "l", "e", "y">>, <<"i", "o", "i", " ", "m", "a", "l", "l">> >>

supported_outlets ==
    << <<"s", "s", " ", "2">>,
       <<"s", "s", "2">>,
       <<"d", "a", "m", "a", "n", "s", "a", "r", "a">>,
       <<"b", "u", "k", "i", "t", " ", "b", "i", "n", "t", "a", "n", "g">>,
       <<"s", "u", "b", "a", "n", "g">>,
       <<"p", "u", "c", "h", "o", "n", "g">>,
       <<"1", " ", "u", "t", "a", "m", "a">>,
       <<"o", "n", "e", " ", "u", "t", "a", "m", "a">>,
       <<"k", "l", "c", "c">>,
       <<"m", "i", "d", " ", "v", "a", "l", "l", "e", "y">>,
       <<"i", "o", "i", " ", "m", "a", "l", "l">> >>

---------------------------------------------------------------------------
\* EnhancedChatbotAgent.detect_intent

math_keywords ==
    << <<"a", "d", "d">>,
       <<"p", "l", "u", "s">>,
       <<"s", "u", "m">>,
       <<"s", "u", "b", "t", "r", "a", "c", "t">>,
       <<"m", "i", "n", "u", "s">>,
       <<"m", "u", "l", "t", "i", "p", "l", "y">>,
       <<"t", "i", "m", "e", "s">>,
       <<"d", "i", "v", "i", "d", "e">>,
       <<"d", "i", "v", "i", "d", "e", "d">>,
       <<"c", "a", "l", "c", "u", "l", "a", "t", "e">> >>

time_keywords ==
    << <<"o", "p", "e", "n">>,
       <<"t", "i", "m", "e">>,
       <<"w", "h", "e", "n">>,
       <<"h", "o", "u", "r", "s">>,
       <<"s", "c", "h", "e", "d", "u", "l", "e">> >>

outlet_keywords ==
    << <<"o", "u", "t", "l", "e", "t">>,
       <<"b", "r", "a", "n", "c", "h">>,
       <<"s", "t", "o", "r", "e">>,
       <<"l", "o", "c", "a", "t", "i", "o", "n">>,
       <<"w", "h", "e", "r", "e">> >>

product_keywords ==
    << <<"p", "r", "o", "d", "u", "c", "t">>,
       <<"i", "t", "e", "m">>,
       <<"b", "u", "y">>,
       <<"p", "r", "i", "c", "e">>,
       <<"a", "v", "a", "i", "l", "a", "b", "l", "e">>,
       <<"s", "h", "o", "w", " ", "m", "e">>,
       <<"c", "o", "f", "f", "e", "e">>,
       <<"c", "u", "p">>,
       <<"m", "u", "g">>,
       <<"d", "r", "i", "n", "k", "w", "a", "r", "e">> >>

greeting_keywords ==
    << <<"h", "e", "l", "l", "o">>,
       <<"h", "i">>,
       <<"h", "e", "y">>,
       <<"g", "o", "o", "d", " ", "m", "o", "r", "n", "i", "n", "g">>,
       <<"g", "o", "o", "d", " ", "a", "f", "t", "e", "r", "n", "o", "o", "n">> >>

\* the local list of detect_intent and of update_state
outlet_names ==
    << <<"s", "s", " ", "2">>,
       <<"s", "s", "2">>,
       <<"d", "a", "m", "a", "n", "s", "a", "r", "a">>,
       <<"b", "u", "k", "i", "t", " ", "b", "i", "n", "t", "a", "n", "g">>,
       <<"s", "u", "b", "a", "n", "g">>,
       <<"p", "u", "c", "h", "o", "n", "g">> >>

\* intent_scores[key] = score on a dict kept as the sequence of its items in
\* insertion order: an existing key keeps its place, a new one goes last
dict_set(items, key, score) ==
    IF \E k \in 1..Len(items) : items[k][1] = key
    THEN [k \in 1..Len(items) |-> IF items[k][1] = key THEN <<key, score>> ELSE items[k]]
    ELSE Append(items, <<key, score>>)

\* max(items, key=lambda x: x[1]): the first item whose score is the largest
max_item(items) ==
    items[CHOOSE k \in 1..Len(items) :
            /\ \A j \in 1..Len(items) : items[j][2] <= items[k][2]
            /\ \A j \in 1..(k - 1) : items[j][2] < items[k][2]]

\* intent_scores without the check for outlet names
intent_scores_keywords_only(q) ==
    LET query_lower == lower(q)
        s1 == IF any_in(math_keywords, query_lower)
              THEN dict_set(<<>>, CALCULATION, 90) ELSE <<>>
        s2 == IF any_in(time_keywords, query_lower)
              THEN dict_set(s1, TIME_INQUIRY, 80) ELSE s1
        s3 == IF any_in(outlet_keywords, query_lower)
              THEN dict_set(s2, OUTLET_INQUIRY, 85) ELSE s2
        s4 == IF any_in(product_keywords, query_lower)
              THEN dict_set(s3, PRODUCT_SEARCH, 80) ELSE s3
    IN  IF any_in(greeting_keywords, query_lower)
        THEN dict_set(s4, GREETING, 90) ELSE s4

\* the items of intent_scores when detect_intent reaches its return
intent_scores(q) ==
    LET query_lower == lower(q)
        s1 == IF any_in(math_keywords, query_lower)
              THEN dict_set(<<>>, CALCULATION, 90) ELSE <<>>
        s2 == IF any_in(time_keywords, query_lower)
              THEN dict_set(s1, TIME_INQUIRY, 80) ELSE s1
        s3 == IF any_in(outlet_keywords, query_lower)
              THEN dict_set(s2, OUTLET_INQUIRY, 85) ELSE s2
        s4 == IF any_in(product_keywords, query_lower)
              THEN dict_set(s3, PRODUCT_SEARCH, 80) ELSE s3
        s5 == IF any_in(greeting_keywords, query_lower)
              THEN dict_set(s4, GREETING, 90) ELSE s4
    IN  IF any_in(outlet_names, query_lower)
        THEN dict_set(s5, TIME_INQUIRY, 90) ELSE s5

detect_intent(q) ==
    LET scores == intent_scores(q)
    IN  IF scores = <<>> THEN <<UNKNOWN, 0>> ELSE max_item(scores)

---------------------------------------------------------------------------
\* EnhancedChatbotAgent.extract_entities
\* A key that is absent from the dict is None here; numbers is <<>> when absent.

extract_entities(q) ==
    LET query_lower == lower(q)
        numbers     == findall_numbers(q, 1)
    IN  [_query   |-> q,
         location |-> first_in(supported_locations, query_lower),
         outlet   |-> first_in(supported_outlets, query_lower),
         numbers  |-> [k \in 1..Len(numbers) |-> float(numbers[k])]]

---------------------------------------------------------------------------
\* EnhancedChatbotAgent.update_state

\* the fallback that scans the raw query for an outlet name (lines 169-179)
update_state_fallback(mem, entities) ==
    LET found == first_in(outlet_names, lower(entities._query))
    IN  IF found # None
        THEN [mem EXCEPT !.outlet           = found,
                         !.current_state    = OUTLET_CONFIRMED,
                         !.confidence_score = 90]
        ELSE mem

\* update_state with the follow-up rule not asking for a remembered outlet
update_state_unguarded(mem, intent, entities) ==
    IF intent = OUTLET_INQUIRY /\ entities.location # None THEN
        [mem EXCEPT !.location         = entities.location,
                    !.current_state    = LOCATION_CONFIRMED,
                    !.confidence_score = 80]
    ELSE IF intent = TIME_INQUIRY /\ entities.outlet # None THEN
        [mem EXCEPT !.outlet           = entities.outlet,
                    !.current_state    = OUTLET_CONFIRMED,
                    !.confidence_score = 90]
    ELSE IF intent = TIME_INQUIRY THEN
        [mem EXCEPT !.current_state    = COMPLETED,
                    !.confidence_score = 95]
    ELSE mem

\* update_state with a turn that matches no rule starting the conversation over
update_state_starts_over(mem, intent, entities) ==
    IF intent = OUTLET_INQUIRY /\ entities.location # None THEN
        [mem EXCEPT !.location         = entities.location,
                    !.current_state    = LOCATION_CONFIRMED,
                    !.confidence_score = 80]
    ELSE IF intent = TIME_INQUIRY /\ entities.outlet # None THEN
        [mem EXCEPT !.outlet           = entities.outlet,
                    !.current_state    = OUTLET_CONFIRMED,
                    !.confidence_score = 90]
    ELSE IF intent = TIME_INQUIRY /\ mem.outlet # None THEN
        [mem EXCEPT !.current_state    = COMPLETED,
                    !.confidence_score = 95]
    ELSE IF intent = TIME_INQUIRY /\ entities.outlet = None THEN
        update_state_fallback(mem, entities)
    ELSE [mem EXCEPT !.current_state = INITIAL, !.confidence_score = 0]

\* update_state with the remembered outlet tried before the outlet of the query
update_state_memory_first(mem, intent, entities) ==
    IF intent = OUTLET_INQUIRY /\ entities.location # None THEN
        [mem EXCEPT !.location         = entities.location,
                    !.current_state    = LOCATION_CONFIRMED,
                    !.confidence_score = 80]
    ELSE IF intent = TIME_INQUIRY /\ mem.outlet # None THEN
        [mem EXCEPT !.current_state    = COMPLETED,
                    !.confidence_score = 95]
    ELSE IF intent = TIME_INQUIRY /\ entities.outlet # None THEN
        [mem EXCEPT !.outlet           = entities.outlet,
                    !.current_state    = OUTLET_CONFIRMED,
                    !.confidence_score = 90]
    ELSE mem

\* update_state forgetting the outlet when a location is confirmed
update_state_location_drops_outlet(mem, intent, entities) ==
    IF intent = OUTLET_INQUIRY /\ entities.location # None THEN
        [mem EXCEPT !.location         = entities.location,
                    !.outlet           = None,
                    !.current_state    = LOCATION_CONFIRMED,
                    !.confidence_score = 80]
    ELSE IF intent = TIME_INQUIRY /\ entities.outlet # None THEN
        [mem EXCEPT !.outlet           = entities.outlet,
                    !.current_state    = OUTLET_CONFIRMED,
                    !.confidence_score = 90]
    ELSE IF intent = TIME_INQUIRY /\ mem.outlet # None THEN
        [mem EXCEPT !.current_state    = COMPLETED,
                    !.confidence_score = 95]
    ELSE IF intent = TIME_INQUIRY /\ entities.outlet = None THEN
        update_state_fallback(mem, entities)
    ELSE mem

update_state(mem, intent, entities) ==
    IF intent = OUTLET_INQUIRY /\ entities.location # None THEN
        [mem EXCEPT !.location         = entities.location,
                    !.current_state    = LOCATION_CONFIRMED,
                    !.confidence_score = 80]
    ELSE IF intent = TIME_INQUIRY /\ entities.outlet # None THEN
        [mem EXCEPT !.outlet           = entities.outlet,
                    !.current_state    = OUTLET_CONFIRMED,
                    !.confidence_score = 90]
    ELSE IF intent = TIME_INQUIRY /\ mem.outlet # None THEN
        [mem EXCEPT !.current_state    = COMPLETED,
                    !.confidence_score = 95]
    ELSE IF intent = TIME_INQUIRY /\ entities.outlet = None THEN
        update_state_fallback(mem, entities)
    ELSE mem

---------------------------------------------------------------------------
\* Responses and collaborators
\*
\* A response is its message, or its template with the text and the number
\* that fill it.  A turn calls at most one collaborator: the outlet directory
\* (text2sql.query_outlets) or the product search (enhanced_rag.query_products).
\* The call returns records (an answer), returns nothing, or raises inside the
\* handler's try block.

NoValue == <<>>

Reply(msg, name, value) == [msg |-> msg, name |-> name, value |-> value]

CollaboratorOutcome == {"records", "empty", "raises"}

Outcome(memory_, response_, lookup_, searched_) ==
    [memory |-> memory_, response |-> response_, lookup |-> lookup_, searched |-> searched_]

\* an exception in flight: what a call gives when it raises instead of returning
Raise == Reply("raise Exception", <<>>, NoValue)

\* an except clause that does not match what was raised: the exception goes on
try_except_unmatched(r, handler) == r

\* try: return r
\* except Exception: return handler
try_except(r, handler) == IF r = Raise THEN handler ELSE r

---------------------------------------------------------------------------
\* EnhancedChatbotAgent.handle_calculation

\* detect_operation trying the operators in the opposite order
detect_operation_divide_first(query_lower) ==
    IF any_in(<< <<"d", "i", "v", "i", "d", "e">>, <<"d", "i", "v", "i", "d", "e", "d">>, <<"/">> >>, query_lower) THEN "div"
    ELSE IF any_in(<< <<"m", "u", "l", "t", "i", "p", "l", "y">>, <<"t", "i", "m", "e", "s">>, <<"*">> >>, query_lower) THEN "mul"
    ELSE IF any_in(<< <<"s", "u", "b", "t", "r", "a", "c", "t">>, <<"m", "i", "n", "u", "s">>, <<"-">> >>, query_lower) THEN "sub"
    ELSE IF any_in(<< <<"a", "d", "d">>, <<"p", "l", "u", "s">>, <<"s", "u", "m">>, <<"+">> >>, query_lower) THEN "add"
    ELSE "none"

\* the operation handle_calculation reads in the lower-cased query
detect_operation(query_lower) ==
    IF any_in(<< <<"a", "d", "d">>, <<"p", "l", "u", "s">>, <<"s", "u", "m">>, <<"+">> >>, query_lower) THEN "add"
    ELSE IF any_in(<< <<"s", "u", "b", "t", "r", "a", "c", "t">>, <<"m", "i", "n", "u", "s">>, <<"-">> >>, query_lower) THEN "sub"
    ELSE IF any_in(<< <<"m", "u", "l", "t", "i", "p", "l", "y">>, <<"t", "i", "m", "e", "s">>, <<"*">> >>, query_lower) THEN "mul"
    ELSE IF any_in(<< <<"d", "i", "v", "i", "d", "e">>, <<"d", "i", "v", "i", "d", "e", "d">>, <<"/">> >>, query_lower) THEN "div"
    ELSE "none"

handle_calculation(q) ==
    LET numbers     == findall_numbers(q, 1)
        query_lower == lower(q)
        a  == float(numbers[1])
        b  == float(numbers[2])
        op == detect_operation(query_lower)
    IN  try_except(
            IF Len(numbers) < 2 THEN
                Reply("I need two numbers to calculate. Try something like 'What is 4 plus 5?'",
                      <<>>, NoValue)
            ELSE IF op = "none" THEN
                Reply("I couldn't understand the operation. Try 'add', 'subtract', 'multiply', or 'divide'.",
                      <<>>, NoValue)
            ELSE
                \* the inner try block around calculate (lines 207-213)
                try_except(
                    IF calculate(a, b, op)[1] = "ok"
                    THEN Reply("The answer is {result}.", <<>>, calculate(a, b, op)[2])
                    ELSE Raise,
                    Reply("Sorry, I couldn't calculate that. Please try again.", <<>>, NoValue)),
            Reply("Something went wrong. Please try again.", <<>>, NoValue))

---------------------------------------------------------------------------
\* EnhancedChatbotAgent.handle_outlet_inquiry

\* handle_outlet_inquiry writing the location without asking whether there is one
handle_outlet_inquiry_unguarded(mem, entities, co) ==
    LET mem2  == [mem EXCEPT !.location      = entities.location,
                             !.current_state = LOCATION_CONFIRMED]
        asked == Some([text |-> "outlets in {location}", name |-> <<>>])
    IN  IF entities.location # None THEN
            Outcome(mem2,
                    Reply("Yes! We have outlets in {location.title()}: {outlet_list}. Which one are you interested in?",
                          entities.location[1], NoValue),
                    asked, 0)
        ELSE
            Outcome(mem2,
                    Reply("Which area are you interested in? We have outlets in Petaling Jaya, Kuala Lumpur, Subang, and Puchong.",
                          <<>>, NoValue),
                    None, 0)

\* handle_outlet_inquiry taking the location back when the lookup gives no records
handle_outlet_inquiry_rolls_back(mem, entities, co) ==
    IF entities.location # None THEN
        LET location == entities.location[1]
            asked    == Some([text |-> "outlets in {location}", name |-> location])
        IN  IF co = "records" THEN
                Outcome([mem EXCEPT !.location      = Some(location),
                                    !.current_state = LOCATION_CONFIRMED],
                        Reply("Yes! We have outlets in {location.title()}: {outlet_list}. Which one are you interested in?",
                              location, NoValue),
                        asked, 0)
            ELSE
                Outcome([mem EXCEPT !.location         = None,
                                    !.current_state    = INITIAL,
                                    !.confidence_score = 0],
                        IF co = "empty"
                        THEN Reply("I don't have information about outlets in {location.title()}. Please try another location.",
                                   location, NoValue)
                        ELSE Reply("I'm having trouble accessing outlet information right now. Please try again later.",
                                   <<>>, NoValue),
                        asked, 0)
    ELSE
        Outcome(mem,
                Reply("Which area are you interested in? We have outlets in Petaling Jaya, Kuala Lumpur, Subang, and Puchong.",
                      <<>>, NoValue),
                None, 0)

handle_outlet_inquiry(mem, entities, co) ==
    IF entities.location # None THEN
        LET location == entities.location[1]
            mem2     == [mem EXCEPT !.location      = Some(location),
                                    !.current_state = LOCATION_CONFIRMED]
            asked    == Some([text |-> "outlets in {location}", name |-> location])
        IN  Outcome(mem2,
                    try_except(
                        IF co = "raises" THEN
                            Raise
                        ELSE IF co = "records" THEN
                            Reply("Yes! We have outlets in {location.title()}: {outlet_list}. Which one are you interested in?",
                                  location, NoValue)
                        ELSE
                            Reply("I don't have information about outlets in {location.title()}. Please try another location.",
                                  location, NoValue),
                        Reply("I'm having trouble accessing outlet information right now. Please try again later.",
                              <<>>, NoValue)),
                    asked, 0)
    ELSE
        Outcome(mem,
                Reply("Which area are you interested in? We have outlets in Petaling Jaya, Kuala Lumpur, Subang, and Puchong.",
                      <<>>, NoValue),
                None, 0)

---------------------------------------------------------------------------
\* EnhancedChatbotAgent.handle_time_inquiry

\* the replies and the directory query of handle_time_inquiry for the resolved outlet
time_reply(mem2, outlet, co) ==
    IF outlet # None THEN
        LET asked == Some([text |-> "opening hours for {outlet} outlet", name |-> outlet[1]])
        IN  Outcome(mem2,
                    try_except(
                        IF co = "raises" THEN
                            Raise
                        ELSE IF co = "records" THEN
                            Reply("The {outlet_name} outlet opening hours: {opening_hours}.",
                                  outlet[1], NoValue)
                        ELSE
                            Reply("I don't have information about the {outlet} outlet. Please specify a valid outlet.",
                                  outlet[1], NoValue),
                        Reply("I'm having trouble accessing outlet information right now. Please try again later.",
                              <<>>, NoValue)),
                    asked, 0)
    ELSE
        Outcome(mem2,
                Reply("Which outlet are you asking about? Please specify the outlet name.",
                      <<>>, NoValue),
                None, 0)

\* handle_time_inquiry resolving the outlet from the query alone
handle_time_inquiry_query_only(mem, entities, co) ==
    LET mem2 == IF entities.outlet # None
                THEN [mem EXCEPT !.outlet        = entities.outlet,
                                 !.current_state = OUTLET_CONFIRMED]
                ELSE mem
    IN  time_reply(mem2, entities.outlet, co)

\* handle_time_inquiry confirming the outlet again when it only is remembered
handle_time_inquiry_confirms_remembered(mem, entities, co) ==
    LET outlet == IF entities.outlet # None THEN entities.outlet ELSE mem.outlet
        mem2   == IF outlet # None
                  THEN [mem EXCEPT !.outlet        = outlet,
                                   !.current_state = OUTLET_CONFIRMED]
                  ELSE mem
    IN  time_reply(mem2, outlet, co)

handle_time_inquiry(mem, entities, co) ==
    LET mem2   == IF entities.outlet # None
                  THEN [mem EXCEPT !.outlet        = entities.outlet,
                                   !.current_state = OUTLET_CONFIRMED]
                  ELSE mem
        \* self.memory.outlet or entities.get("outlet")
        outlet == IF mem2.outlet # None THEN mem2.outlet ELSE entities.outlet
    IN  time_reply(mem2, outlet, co)

---------------------------------------------------------------------------
\* EnhancedChatbotAgent.handle_product_search, handle_greeting

\* handle_product_search without its try block
handle_product_search_unprotected(q, co) ==
    IF co = "raises" THEN Raise
    ELSE Reply("{enhanced_rag.query_products(query)}", q, NoValue)

handle_product_search(q, co) ==
    try_except(
        IF co = "raises" THEN Raise
        ELSE Reply("{enhanced_rag.query_products(query)}", q, NoValue),
        Reply("Sorry, I'm having trouble searching for products right now. Please try again later.",
              <<>>, NoValue))

handle_greeting ==
    Reply("Hello! I'm your AI assistant. I can help you with outlet information, calculations, and product searches. How can I help you today?",
          <<>>, NoValue)

---------------------------------------------------------------------------
\* Inputs of respond

\* the queries given to respond
Queries ==
    { <<"I", "s", " ", "t", "h", "e", "r", "e", " ", "a", "n", " ", "o", "u", "t", "l", "e", "t", " ", "i", "n", " ", "P", "e", "t", "a", "l", "i", "n", "g", " ", "J", "a", "y", "a", "?">>,
      <<"S", "S", " ", "2", ",", " ", "w", "h", "a", "t", "'", "s", " ", "t", "h", "e", " ", "o", "p", "e", "n", "i", "n", "g", " ", "t", "i", "m", "e", "?">>,
      <<"W", "h", "a", "t", " ", "t", "i", "m", "e", " ", "d", "o", "e", "s", " ", "i", "t", " ", "o", "p", "e", "n", "?">>,
      <<>>,
      <<" ", " ">>,
      <<"I", "s", " ", "t", "h", "e", "r", "e", " ", "a", "n", " ", "o", "u", "t", "l", "e", "t", " ", "i", "n", " ", "S", "u", "b", "a", "n", "g", "?">>,
      <<"W", "h", "a", "t", " ", "i", "s", " ", "4", " ", "p", "l", "u", "s", " ", "5", "?">>,
      <<"H", "e", "l", "l", "o">>,
      <<"I", " ", "w", "a", "n", "t", " ", "t", "o", " ", "b", "u", "y", " ", "a", " ", "c", "o", "f", "f", "e", "e", " ", "c", "u", "p">>,
      <<"R", "a", "n", "d", "o", "m", " ", "g", "i", "b", "b", "e", "r", "i", "s", "h", " ", "t", "e", "x", "t">> }

\* the queries given to respond in a short conversation: those of the
\* conversation tests and of the robustness tests
TurnQueries ==
    { <<"I", "s", " ", "t", "h", "e", "r", "e", " ", "a", "n", " ", "o", "u", "t", "l", "e", "t", " ", "i", "n", " ", "P", "e", "t", "a", "l", "i", "n", "g", " ", "J", "a", "y", "a", "?">>,
      <<"S", "S", " ", "2", ",", " ", "w", "h", "a", "t", "'", "s", " ", "t", "h", "e", " ", "o", "p", "e", "n", "i", "n", "g", " ", "t", "i", "m", "e", "?">>,
      <<"W", "h", "a", "t", " ", "t", "i", "m", "e", " ", "d", "o", "e", "s", " ", "i", "t", " ", "o", "p", "e", "n", "?">>,
      <<"S", "S", " ", "2">>,
      <<"W", "h", "e", "r", "e", " ", "i", "s", " ", "t", "h", "e", " ", "n", "e", "a", "r", "e", "s", "t", " ", "o", "u", "t", "l", "e", "t", "?">>,
      <<"I", "s", " ", "t", "h", "e", "r", "e", " ", "a", "n", " ", "o", "u", "t", "l", "e", "t", " ", "i", "n", " ", "M", "a", "r", "s", "?">>,
      <<"W", "h", "a", "t", " ", "i", "s", " ", "1", "0", " ", "d", "i", "v", "i", "d", "e", "d", " ", "b", "y", " ", "0", "?">>,
      <<"W", "h", "a", "t", " ", "i", "s", " ", "5", " ", "p", "o", "w", "e", "r", " ", "3", "?">>,
      <<"c", "a", "l", "c", "u", "l", "a", "t", "e", " ", "5", " ", "p", "o", "w", "e", "r", " ", "3">>,
      <<"W", "h", "a", "t", " ", "i", "s", " ", "4", " ", "p", "l", "u", "s", " ", "5", "?">>,
      <<"H", "e", "l", "l", "o">>,
      <<"I", " ", "w", "a", "n", "t", " ", "t", "o", " ", "b", "u", "y", " ", "a", " ", "c", "o", "f", "f", "e", "e", " ", "c", "u", "p">>,
      <<"R", "a", "n", "d", "o", "m", " ", "g", "i", "b", "b", "e", "r", "i", "s", "h", " ", "t", "e", "x", "t">>,
      <<" ", " ", " ">>,
      <<"K", "L", "C", "C", " ", "o", "p", "e", "n", "i", "n", "g", " ", "h", "o", "u", "r", "s">>,
      <<"W", "h", "a", "t", " ", "i", "s", " ", "1", "0", " ", "m", "i", "n", "u", "s", " ", "4", "?">>,
      <<"W", "h", "a", "t", " ", "i", "s", " ", "3", " ", "t", "i", "m", "e", "s", " ", "4", " ", "p", "l", "u", "s", " ", "2", "?">>,
      <<"C", "a", "l", "c", "u", "l", "a", "t", "e", " ", "6", " ", "d", "i", "v", "i", "d", "e", "d", " ", "b", "y", " ", "3">> }

AllQueries == Queries \cup TurnQueries

---------------------------------------------------------------------------
\* EnhancedChatbotAgent.respond, given what detect_intent and extract_entities
\* return for the query

\* handle_calculation is a function of the query alone
Calculated == [q \in AllQueries |-> handle_calculation(q)]

dispatch(mem, q, intent, entities, co) ==
    LET mem1 == update_state(mem, intent, entities)
        out  == IF intent = CALCULATION THEN
                    Outcome(mem1, Calculated[q], None, 0)
                ELSE IF intent = OUTLET_INQUIRY THEN
                    handle_outlet_inquiry(mem1, entities, co)
                ELSE IF intent = TIME_INQUIRY THEN
                    handle_time_inquiry(mem1, entities, co)
                ELSE IF intent = PRODUCT_SEARCH THEN
                    Outcome(mem1, handle_product_search(q, co), None, 1)
                ELSE IF intent = GREETING THEN
                    Outcome(mem1, handle_greeting, None, 0)
                ELSE
                    Outcome(mem1,
                            Reply("I'm not sure how to help with that. I can assist with outlet information, calculations, and product searches. What would you like to know?",
                                  <<>>, NoValue),
                            None, 0)
    \* an exception leaves the try block before add_interaction (line 360)
    IN  IF out.response = Raise THEN out
        ELSE [out EXCEPT !.memory = add_interaction(out.memory, q, out.response, intent)]

\* detect_intent and extract_entities are functions of the query alone: what they
\* return for each query that is given to respond
Classified == [q \in AllQueries |-> detect_intent(q)]

Extracted == [q \in AllQueries |-> extract_entities(q)]

\* respond without the validation of its input
respond_unvalidated(mem, q, co) ==
    LET out == dispatch(mem, q, Classified[q][1], Extracted[q], co)
    IN  [out EXCEPT !.response =
            try_except(out.response,
                       Reply("I'm experiencing some technical difficulties. Please try again in a moment.",
                             <<>>, NoValue))]

respond(mem, q, co) ==
    IF is_blank(q) THEN
        Outcome(mem,
                Reply("I didn't catch that. Could you please repeat your question?",
                      <<>>, NoValue),
                None, 0)
    ELSE
        LET out == dispatch(mem, q, Classified[q][1], Extracted[q], co)
        IN  [out EXCEPT !.response =
                try_except(out.response,
                           Reply("I'm experiencing some technical difficulties. Please try again in a moment.",
                                 <<>>, NoValue))]

\* EnhancedChatbotAgent.reset_conversation
reset_conversation(mem) == reset(mem)

\* EnhancedChatbotAgent.get_conversation_state: asdict(self.memory), a copy of
\* the memory with the same fields
get_conversation_state(mem) ==
    [location             |-> mem.location,
     outlet               |-> mem.outlet,
     current_state        |-> mem.current_state,
     conversation_history |-> mem.conversation_history,
     confidence_score     |-> mem.confidence_score]

---------------------------------------------------------------------------
\* Inputs

\* the words a query given to the classifier alone is composed of
Words ==
    { <<"H", "i">>,
      <<"S", "S", "2">>,
      <<"o", "p", "e", "n">>,
      <<"p", "l", "u", "s">>,
      <<"o", "u", "t", "l", "e", "t">>,
      <<"b", "u", "y">>,
      <<"x", "y", "z">>,
      <<"K", "L", "C", "C">>,
      <<"S", "u", "b", "a", "n", "g">> }

NoReply == Reply("", <<>>, NoValue)

---------------------------------------------------------------------------
\* The agent: respond and reset_conversation calls, one at a time

\* the clients of the HTTP service
Clients == {1, 2}

\* no request of the client is in the service
NoRequest == [kind |-> "none", pc |-> "idle", query |-> <<>>, after |-> None, returned |-> None]

Init ==
    /\ memory = ConversationMemory
    /\ prev = ConversationMemory
    /\ lastCall = "none"
    /\ query = <<>>
    /\ response = NoReply
    /\ lookup = None
    /\ searched = 0
    /\ responded = 0
    /\ typed = 0
    /\ result = None
    /\ beats = {}
    /\ requests = [c \in Clients |-> NoRequest]
    /\ running = 0
    /\ received = 0

\* one respond call and what it leaves behind in the agent
Turn(q, co) ==
    /\ LET out == respond(memory, q, co)
       IN  /\ memory' = out.memory
           /\ response' = out.response
           /\ lookup' = out.lookup
           /\ searched' = out.searched
    /\ prev' = memory
    /\ lastCall' = "respond"
    /\ query' = q
    /\ responded' = responded + 1

\* one respond call made on the agent directly
Call(q, co) ==
    /\ Turn(q, co)
    /\ UNCHANGED <<typed, result, beats, requests, running, received>>

Respond(q, co) ==
    /\ responded < MaxTurns
    /\ Call(q, co)

\* one reset_conversation call and what it leaves behind in the agent
Reset ==
    /\ memory' = reset_conversation(memory)
    /\ prev' = memory
    /\ lastCall' = "reset"
    /\ UNCHANGED <<query, response, lookup, searched, responded>>

ResetConversation ==
    /\ Reset
    /\ UNCHANGED <<typed, result, beats, requests, running, received>>

Next ==
    \/ \E q \in Queries, co \in CollaboratorOutcome : Respond(q, co)
    \/ ResetConversation

Spec == Init /\ [][Next]_vars

---------------------------------------------------------------------------
\* A short conversation over the wider set of queries

RespondShort(q, co) ==
    /\ responded < MaxShort
    /\ Call(q, co)

NextShort ==
    \/ \E q \in TurnQueries, co \in CollaboratorOutcome : RespondShort(q, co)
    \/ ResetConversation

SpecShort == Init /\ [][NextShort]_vars

---------------------------------------------------------------------------
\* The HTTP service (main.py): POST /chat, GET /chat/state and POST /chat/reset
\* on the one agent of the module, served by coroutines of one event loop.
\* Requests of different clients arrive at any time; a handler starts when
\* the loop is free and keeps the loop until it awaits or returns.

\* the queries sent to POST /chat
HttpQueries ==
    { <<"I", "s", " ", "t", "h", "e", "r", "e", " ", "a", "n", " ", "o", "u", "t", "l", "e", "t", " ", "i", "n", " ", "P", "e", "t", "a", "l", "i", "n", "g", " ", "J", "a", "y", "a", "?">>,
      <<"S", "S", " ", "2", ",", " ", "w", "h", "a", "t", "'", "s", " ", "t", "h", "e", " ", "o", "p", "e", "n", "i", "n", "g", " ", "t", "i", "m", "e", "?">>,
      <<"H", "e", "l", "l", "o">> }

\* handlers run in threads of a pool, as FastAPI runs `def` endpoints
Runnable_in_threads(c) == TRUE

\* the event loop lets the handler of client c run: no other handler holds the loop
Runnable(c) == running \in {0, c}

\* a request of client c arrives
Receive(c, kind, q) ==
    /\ received < MaxRequests
    /\ requests[c].pc \in {"idle", "returned"}
    /\ requests' = [requests EXCEPT ![c] =
                        [kind     |-> kind,
                         pc       |-> "received",
                         query    |-> IF kind = "chat" THEN q ELSE <<>>,
                         after    |-> None,
                         returned |-> None]]
    /\ received' = received + 1
    /\ UNCHANGED <<memory, prev, lastCall, query, response, lookup, searched,
                   responded, typed, result, beats, running>>

\* chat: response = agent.respond(input.query)
ChatRespond(c, co) ==
    /\ requests[c].kind = "chat"
    /\ requests[c].pc = "received"
    /\ Runnable(c)
    /\ Turn(requests[c].query, co)
    /\ requests' = [requests EXCEPT ![c].pc = "responded", ![c].after = Some(memory')]
    /\ running' = c
    /\ UNCHANGED <<typed, result, beats, received>>

\* chat: conversation_state = agent.get_conversation_state(); return ChatResponse(...)
ChatReturn(c) ==
    /\ requests[c].kind = "chat"
    /\ requests[c].pc = "responded"
    /\ Runnable(c)
    /\ requests' = [requests EXCEPT ![c].pc = "returned",
                                    ![c].returned = Some(get_conversation_state(memory))]
    /\ running' = 0
    /\ UNCHANGED <<memory, prev, lastCall, query, response, lookup, searched,
                   responded, typed, result, beats, received>>

\* get_conversation_state: GET /chat/state
GetState(c) ==
    /\ requests[c].kind = "state"
    /\ requests[c].pc = "received"
    /\ Runnable(c)
    /\ requests' = [requests EXCEPT ![c].pc = "returned",
                                    ![c].returned = Some(get_conversation_state(memory))]
    /\ running' = 0
    /\ UNCHANGED <<memory, prev, lastCall, query, response, lookup, searched,
                   responded, typed, result, beats, received>>

\* reset_conversation: POST /chat/reset
PostReset(c) ==
    /\ requests[c].kind = "reset"
    /\ requests[c].pc = "received"
    /\ Runnable(c)
    /\ Reset
    /\ requests' = [requests EXCEPT ![c].pc = "returned"]
    /\ running' = 0
    /\ UNCHANGED <<typed, result, beats, received>>

NextHttp ==
    \/ \E c \in Clients, kind \in {"chat", "state", "reset"}, q \in HttpQueries :
            Receive(c, kind, q)
    \/ \E c \in Clients, co \in CollaboratorOutcome : ChatRespond(c, co)
    \/ \E c \in Clients : ChatReturn(c)
    \/ \E c \in Clients : GetState(c)
    \/ \E c \in Clients : PostReset(c)

SpecHttp == Init /\ [][NextHttp]_vars

---------------------------------------------------------------------------
\* The classifier and the extractor alone: a query is composed word by word
\* and given to detect_intent and extract_entities (respond, lines 339-340)

\* the categories that hold the largest score of intent_scores
top_scored(items) ==
    {items[k][1] : k \in {j \in 1..Len(items) :
                            \A i \in 1..Len(items) : items[i][2] <= items[j][2]}}

\* the pairs <<w, l>> of a classification: w was returned while l had the same score
ties(r) == {<<r.intent, l>> : l \in r.top \ {r.intent}}

TypeWord(w) ==
    /\ result = None
    /\ typed < MaxWords
    /\ query' = IF typed = 0 THEN w ELSE query \o <<" ">> \o w
    /\ typed' = typed + 1
    /\ UNCHANGED <<memory, prev, lastCall, response, lookup, searched, responded,
                   result, beats, requests, running, received>>

Classify ==
    /\ result = None
    /\ result' = Some([intent     |-> detect_intent(query)[1],
                       confidence |-> detect_intent(query)[2],
                       top        |-> top_scored(intent_scores(query)),
                       scores     |-> intent_scores(query),
                       entities   |-> extract_entities(query)])
    /\ UNCHANGED <<memory, prev, lastCall, query, response, lookup, searched,
                   responded, typed, beats, requests, running, received>>

NextQuery ==
    /\ result # None
    /\ query' = <<>>
    /\ typed' = 0
    /\ result' = None
    /\ beats' = ties(result[1])
    /\ UNCHANGED <<memory, prev, lastCall, response, lookup, searched, responded,
                   requests, running, received>>

NextClassify ==
    \/ \E w \in Words : TypeWord(w)
    \/ Classify
    \/ NextQuery

SpecClassify == Init /\ [][NextClassify]_vars

---------------------------------------------------------------------------
\* Properties of the conversation (Spec)

\* INITIAL < LOCATION_CONFIRMED < OUTLET_CONFIRMED < COMPLETED
Rank(s) ==
    IF s = INITIAL THEN 0
    ELSE IF s = LOCATION_CONFIRMED THEN 1
    ELSE IF s = OUTLET_CONFIRMED THEN 2
    ELSE 3

\* the last call was a respond call that reached classification, and classified
\* its query as intent
TurnOf(intent) ==
    /\ lastCall = "respond"
    /\ ~is_blank(query)
    /\ Classified[query][1] = intent

\* the directory query for the opening hours of outlet name
HoursOf(name) == Some([text |-> "opening hours for {outlet} outlet", name |-> name])

\* C1: current_state is OUTLET_CONFIRMED or COMPLETED only if an outlet is
\* remembered, and LOCATION_CONFIRMED only if a location is remembered.
C1_StateHasItsEntity ==
    /\ memory.current_state \in {OUTLET_CONFIRMED, COMPLETED} => memory.outlet # None
    /\ memory.current_state = LOCATION_CONFIRMED => memory.location # None

C1_Witness ==
    /\ lastCall = "respond"
    /\ memory.current_state = COMPLETED
    /\ memory.outlet # None
    /\ prev.current_state = LOCATION_CONFIRMED
    /\ prev.outlet # None

\* C2: the length of conversation_history equals the number of respond calls
\* that have returned, the calls with an empty or blank query included.
C2_HistoryCountsCalls ==
    Len(memory.conversation_history) = responded

\* C3: reset_conversation leaves current_state INITIAL, no location, no outlet
\* and confidence_score 0.0, whatever the memory was.
C3_ResetRestores ==
    lastCall = "reset" =>
        /\ memory.current_state = INITIAL
        /\ memory.location = None
        /\ memory.outlet = None
        /\ memory.confidence_score = 0

C3_Witness ==
    /\ lastCall = "reset"
    /\ prev.current_state = COMPLETED
    /\ prev.location # None
    /\ prev.outlet # None
    /\ prev.confidence_score = 95
    /\ memory.current_state = INITIAL

\* C4: after reset_conversation in a conversation that has turns,
\* conversation_history is empty.
C4_ResetClearsHistory ==
    (lastCall = "reset" /\ Len(prev.conversation_history) > 0) =>
        Len(memory.conversation_history) = 0

\* C5 as stated: no respond call moves current_state backward in the order
\* INITIAL < LOCATION_CONFIRMED < OUTLET_CONFIRMED < COMPLETED.
C5_NeverBackward ==
    lastCall = "respond" =>
        Rank(memory.current_state) >= Rank(prev.current_state)

\* C5 as amended: a respond call moves current_state backward only when it is
\* an outlet inquiry naming a supported location (to LOCATION_CONFIRMED) or a
\* time inquiry naming an outlet (to OUTLET_CONFIRMED); any other respond call
\* leaves it at or ahead of where it was, and none returns it to INITIAL.
C5_BackwardOnlyByNewEntity ==
    lastCall = "respond" =>
        \/ Rank(memory.current_state) >= Rank(prev.current_state)
        \/ /\ TurnOf(OUTLET_INQUIRY)
           /\ Extracted[query].location # None
           /\ memory.current_state = LOCATION_CONFIRMED
        \/ /\ TurnOf(TIME_INQUIRY)
           /\ Extracted[query].outlet # None
           /\ memory.current_state = OUTLET_CONFIRMED

C5_Witness ==
    /\ lastCall = "respond"
    /\ prev.current_state = COMPLETED
    /\ memory.current_state = LOCATION_CONFIRMED

\* C6: with outlet X remembered, a time-inquiry turn whose query names no
\* outlet keeps outlet X, asks the directory for the opening hours of X and
\* sets COMPLETED with confidence 0.95; so does a repetition of it.
C6_FollowUpUsesMemory ==
    (TurnOf(TIME_INQUIRY) /\ Extracted[query].outlet = None /\ prev.outlet # None) =>
        /\ memory.outlet = prev.outlet
        /\ lookup = HoursOf(prev.outlet[1])
        /\ memory.current_state = COMPLETED
        /\ memory.confidence_score = 95

\* the follow-up repeated: the state before it was COMPLETED already
C6_Witness ==
    /\ TurnOf(TIME_INQUIRY)
    /\ Extracted[query].outlet = None
    /\ prev.outlet # None
    /\ prev.current_state = COMPLETED
    /\ memory.current_state = COMPLETED
    /\ lookup = HoursOf(prev.outlet[1])

\* C7: after respond with a query that names supported location L and holds
\* an outlet keyword, memory.location is L and current_state is
\* LOCATION_CONFIRMED.
C7_LocationConfirmed ==
    \A k \in 1..Len(supported_locations) :
        ( /\ lastCall = "respond"
          /\ Contains(supported_locations[k], lower(query))
          /\ any_in(outlet_keywords, lower(query)) ) =>
            /\ memory.location = Some(supported_locations[k])
            /\ memory.current_state = LOCATION_CONFIRMED

\* C10: a time-inquiry turn whose query names outlet X while another outlet
\* is remembered sets outlet X, OUTLET_CONFIRMED and confidence 0.9, and asks
\* the directory for the opening hours of X.
C10_NewOutletWins ==
    ( /\ TurnOf(TIME_INQUIRY)
      /\ Extracted[query].outlet # None
      /\ prev.outlet # None
      /\ prev.outlet # Extracted[query].outlet ) =>
        /\ memory.outlet = Extracted[query].outlet
        /\ memory.current_state = OUTLET_CONFIRMED
        /\ memory.confidence_score = 90
        /\ lookup = HoursOf(Extracted[query].outlet[1])

C10_Witness ==
    /\ TurnOf(TIME_INQUIRY)
    /\ Extracted[query].outlet # None
    /\ prev.outlet # None
    /\ prev.outlet # Extracted[query].outlet
    /\ prev.current_state = COMPLETED
    /\ memory.outlet = Extracted[query].outlet
    /\ memory.current_state = OUTLET_CONFIRMED

---------------------------------------------------------------------------
\* Properties of the classifier (SpecClassify)

\* the composed query holds a keyword of the five keyword sets or an outlet
\* name of detect_intent
Matches(q) ==
    \/ any_in(math_keywords, lower(q))
    \/ any_in(time_keywords, lower(q))
    \/ any_in(outlet_keywords, lower(q))
    \/ any_in(product_keywords, lower(q))
    \/ any_in(greeting_keywords, lower(q))
    \/ any_in(outlet_names, lower(q))

\* C8: detect_intent returns a category whose score is the largest, and among
\* categories with the same largest score the winner follows one fixed
\* order: no two queries decide the same tie in opposite ways.
C8_FixedTieOrder ==
    result # None =>
        /\ result[1].intent \in result[1].top \cup {UNKNOWN}
        /\ \A t \in ties(result[1]) : <<t[2], t[1]>> \notin beats

\* C9: a query without any keyword and without any outlet name is classified
\* (UNKNOWN, 0.0); a query with one is classified as another intent with a
\* confidence above 0.
C9_UnknownIffNoMatch ==
    result # None =>
        IF Matches(query)
        THEN result[1].intent # UNKNOWN /\ result[1].confidence > 0
        ELSE result[1].intent = UNKNOWN /\ result[1].confidence = 0

\* a query of two words or more that holds no keyword
C9_Witness ==
    /\ result # None
    /\ typed >= 2
    /\ ~Matches(query)
    /\ result[1].intent = UNKNOWN

---------------------------------------------------------------------------
\* Properties of one turn (SpecShort)

\* location, outlet, current_state and confidence_score of a memory
Scalars(mem) == <<mem.location, mem.outlet, mem.current_state, mem.confidence_score>>

\* C11: a turn classified CALCULATION, PRODUCT_SEARCH, GREETING or UNKNOWN,
\* and an OUTLET_INQUIRY turn whose query names no supported location, leave
\* location, outlet, current_state and confidence_score as they were.
C11_NoRuleNoChange ==
    ( \/ TurnOf(CALCULATION)
      \/ TurnOf(PRODUCT_SEARCH)
      \/ TurnOf(GREETING)
      \/ TurnOf(UNKNOWN)
      \/ (TurnOf(OUTLET_INQUIRY) /\ ~any_in(supported_locations, lower(query))) ) =>
        Scalars(memory) = Scalars(prev)

\* an outlet inquiry without a location, made after a location was confirmed
C11_Witness ==
    /\ TurnOf(OUTLET_INQUIRY)
    /\ ~any_in(supported_locations, lower(query))
    /\ prev.current_state = LOCATION_CONFIRMED
    /\ prev.location # None
    /\ Scalars(memory) = Scalars(prev)

\* C12: whatever the query and whatever the collaborator does (records,
\* nothing, or an exception; the calculator raising included), respond
\* returns a response string: no exception leaves it.
C12_AlwaysReturnsString ==
    lastCall = "respond" =>
        /\ response # Raise
        /\ response.msg # ""

\* the outlet directory raised during the turn
C12_Witness ==
    /\ lastCall = "respond"
    /\ lookup # None
    /\ response.msg = "I'm having trouble accessing outlet information right now. Please try again later."

\* C13: respond with an empty or whitespace-only query returns the fixed
\* "didn't catch that" message and makes no lookup and no search; location,
\* outlet, current_state and confidence_score are what they were.
C13_BlankShortCircuits ==
    (lastCall = "respond" /\ is_blank(query)) =>
        /\ response = Reply("I didn't catch that. Could you please repeat your question?",
                            <<>>, NoValue)
        /\ lookup = None
        /\ searched = 0
        /\ Scalars(memory) = Scalars(prev)

\* a whitespace-only query in the middle of a conversation
C13_Witness ==
    /\ lastCall = "respond"
    /\ query # <<>>
    /\ is_blank(query)
    /\ prev.current_state = OUTLET_CONFIRMED
    /\ Scalars(memory) = Scalars(prev)
    /\ response.msg = "I didn't catch that. Could you please repeat your question?"

\* the operation read in q is a division and the second number of q is 0
DividesByZero(q) ==
    LET numbers == findall_numbers(q, 1)
    IN  /\ Len(numbers) >= 2
        /\ detect_operation(lower(q)) = "div"
        /\ float(numbers[2])[1] = 0

OnlyAnOutletName(q) ==
    \E k \in 1..Len(supported_outlets) : lower(q) = supported_outlets[k]

\* C15: on a fresh agent (INITIAL, nothing remembered) a turn whose query is
\* only an outlet name leaves memory.location = None and memory.outlet = None.
C15_OutletNameAloneLeavesNothing ==
    ( /\ lastCall = "respond"
      /\ Scalars(prev) = Scalars(ConversationMemory)
      /\ OnlyAnOutletName(query) ) =>
        /\ memory.location = None
        /\ memory.outlet = None

\* C16: a time-inquiry turn whose query names no outlet, made while no outlet
\* is remembered, makes no directory lookup, asks which outlet is meant, and
\* leaves memory.outlet = None and current_state as it was.
C16_NoOutletAsksWhich ==
    ( /\ TurnOf(TIME_INQUIRY)
      /\ ~any_in(supported_outlets, lower(query))
      /\ prev.outlet = None ) =>
        /\ lookup = None
        /\ response = Reply("Which outlet are you asking about? Please specify the outlet name.",
                            <<>>, NoValue)
        /\ memory.outlet = None
        /\ memory.current_state = prev.current_state

\* the time is asked right after a location was confirmed
C16_Witness ==
    /\ TurnOf(TIME_INQUIRY)
    /\ ~any_in(supported_outlets, lower(query))
    /\ prev.outlet = None
    /\ prev.current_state = LOCATION_CONFIRMED
    /\ memory.current_state = LOCATION_CONFIRMED
    /\ lookup = None

---------------------------------------------------------------------------
\* Properties of the history (Spec)

\* C17: a respond call that reaches dispatch adds one entry at the end of the
\* history, with the query, the response returned and the label of the
\* classified intent; the entries that were there stay, in their order, and
\* a respond call that does not reach dispatch leaves the history alone.
C17_HistoryAppendOnly ==
    lastCall = "respond" =>
        IF is_blank(query)
        THEN memory.conversation_history = prev.conversation_history
        ELSE memory.conversation_history =
                Append(prev.conversation_history,
                       [user_input   |-> query,
                        bot_response |-> response,
                        intent       |-> Classified[query][1]])

\* the third turn of a conversation
C17_Witness ==
    /\ lastCall = "respond"
    /\ ~is_blank(query)
    /\ Len(prev.conversation_history) = 2
    /\ Len(memory.conversation_history) = 3
    /\ memory.conversation_history[3].user_input = query
    /\ memory.conversation_history[1] = prev.conversation_history[1]
    /\ memory.conversation_history[1].user_input # memory.conversation_history[3].user_input

---------------------------------------------------------------------------
\* Properties of the extractor (SpecClassify)

\* C18: whenever extract_entities returns an outlet for a query, detect_intent
\* scores TIME_INQUIRY 0.9 for that query.
C18_ExtractedOutletScoresTime ==
    (result # None /\ result[1].entities.outlet # None) =>
        \E k \in 1..Len(result[1].scores) :
            result[1].scores[k] = <<TIME_INQUIRY, 90>>

\* xs[k] is the first entry of xs that text contains
FirstMatch(xs, text, k) ==
    /\ Contains(xs[k], text)
    /\ \A j \in 1..(k - 1) : ~Contains(xs[j], text)

\* found is the first entry of xs that text contains, or None if there is none
IsFirstOf(found, xs, text) ==
    IF \E k \in 1..Len(xs) : Contains(xs[k], text)
    THEN \E k \in 1..Len(xs) : FirstMatch(xs, text, k) /\ found = Some(xs[k])
    ELSE found = None

\* C19: extract_entities returns at most one location and at most one
\* outlet: the first entry of supported_locations, and the first entry of
\* supported_outlets, that occurs in the lower-cased query, whatever else
\* occurs in it; it returns none when no entry occurs.
C19_FirstInListOrder ==
    result # None =>
        /\ IsFirstOf(result[1].entities.location, supported_locations, lower(query))
        /\ IsFirstOf(result[1].entities.outlet, supported_outlets, lower(query))

\* two outlet names occur, and the one returned is not the one that comes
\* first in the query
C19_Witness ==
    /\ result # None
    /\ typed = 2
    /\ Len(query) >= 6
    /\ SubSeq(query, 1, 6) = <<"S", "u", "b", "a", "n", "g">>
    /\ Contains(<<"s", "s", "2">>, lower(query))
    /\ result[1].entities.outlet = Some(<<"s", "s", "2">>)
    /\ result[1].entities.location = Some(<<"s", "u", "b", "a", "n", "g">>)

---------------------------------------------------------------------------
\* Properties of a calculation asked in one turn (SpecShort)

\* C20: respond with a query that has two numbers and no recognised
\* operator (for example 'power') returns the "couldn't understand the
\* operation" message.
C20_UnknownOperationMessage ==
    ( /\ lastCall = "respond"
      /\ Len(findall_numbers(query, 1)) >= 2
      /\ detect_operation(lower(query)) = "none" ) =>
        response.msg = "I couldn't understand the operation. Try 'add', 'subtract', 'multiply', or 'divide'."

---------------------------------------------------------------------------
\* Properties of the handlers in one turn (SpecShort)

\* q names the place the tests use as a location without outlets, and no
\* supported location
NamesUnsupportedLocation(q) ==
    /\ Contains(<<"m", "a", "r", "s">>, lower(q))
    /\ ~any_in(supported_locations, lower(q))

\* C21: an outlet inquiry that names a location outside the supported
\* locations is answered with the "don't have information" reply for that
\* location, and memory.location is not set.
C21_UnsupportedLocationNoInformation ==
    (TurnOf(OUTLET_INQUIRY) /\ NamesUnsupportedLocation(query)) =>
        /\ response.msg = "I don't have information about outlets in {location.title()}. Please try another location."
        /\ memory.location = prev.location

\* the operators in their priority order, each with the words that name it
Operators ==
    << [op |-> "add", words |-> << <<"a", "d", "d">>, <<"p", "l", "u", "s">>, <<"s", "u", "m">>, <<"+">> >>],
       [op |-> "sub", words |-> << <<"s", "u", "b", "t", "r", "a", "c", "t">>, <<"m", "i", "n", "u", "s">>, <<"-">> >>],
       [op |-> "mul", words |-> << <<"m", "u", "l", "t", "i", "p", "l", "y">>, <<"t", "i", "m", "e", "s">>, <<"*">> >>],
       [op |-> "div", words |-> << <<"d", "i", "v", "i", "d", "e">>, <<"d", "i", "v", "i", "d", "e", "d">>, <<"/">> >>] >>

\* Operators[k] is the first operator that text matches
FirstOperator(text, k) ==
    /\ any_in(Operators[k].words, text)
    /\ \A j \in 1..(k - 1) : ~any_in(Operators[j].words, text)

\* the fraction v is the result of op on the fractions a and b, in that order
IsResultOf(v, op, a, b) ==
    IF op = "add" THEN v[1] * (a[2] * b[2]) = (a[1] * b[2] + b[1] * a[2]) * v[2]
    ELSE IF op = "sub" THEN v[1] * (a[2] * b[2]) = (a[1] * b[2] - b[1] * a[2]) * v[2]
    ELSE IF op = "mul" THEN v[1] * (a[2] * b[2]) = (a[1] * b[1]) * v[2]
    ELSE b[1] # 0 /\ v[1] * (a[2] * b[1]) = (a[1] * b[2]) * v[2]

\* C22: in a calculation turn with at least two numbers, the operator is the
\* first of add, subtract, multiply, divide that the query matches, and the
\* response reports that operator applied to the first and the second number
\* of the query, in that order (a division by 0, which has no value, gets the
\* apology of C14); a query with an add word and numbers a, b reports a + b.
C22_FirstOperatorOnFirstTwoNumbers ==
    \A k \in 1..Len(Operators) :
        ( /\ TurnOf(CALCULATION)
          /\ Len(findall_numbers(query, 1)) >= 2
          /\ FirstOperator(lower(query), k) ) =>
            LET a == float(findall_numbers(query, 1)[1])
                b == float(findall_numbers(query, 1)[2])
            IN  IF Operators[k].op = "div" /\ b[1] = 0
                THEN response.msg = "Sorry, I couldn't calculate that. Please try again."
                ELSE /\ response.msg = "The answer is {result}."
                     /\ response.value # NoValue
                     /\ IsResultOf(response.value, Operators[k].op, a, b)

\* a query that matches multiply and add: the sum of its first two numbers
\* is reported
C22_Witness ==
    /\ TurnOf(CALCULATION)
    /\ Len(findall_numbers(query, 1)) = 3
    /\ any_in(Operators[3].words, lower(query))
    /\ FirstOperator(lower(query), 1)
    /\ response.msg = "The answer is {result}."
    /\ response.value = <<7, 1>>

\* C23: a product-search turn returns the answer of the product search as it
\* is when the search succeeds and the "trouble searching" apology when it
\* raises; it makes one search call and no directory lookup, leaves location,
\* outlet, current_state and confidence_score as they were, and appends one
\* history entry with intent 'product_search'.
C23_ProductSearchVerbatimOrApology ==
    [][ \A q \in TurnQueries : \A co \in CollaboratorOutcome :
          ( /\ ~is_blank(q)
            /\ Classified[q][1] = PRODUCT_SEARCH
            /\ RespondShort(q, co) ) =>
              /\ response' =
                    IF co = "raises"
                    THEN Reply("Sorry, I'm having trouble searching for products right now. Please try again later.",
                               <<>>, NoValue)
                    ELSE Reply("{enhanced_rag.query_products(query)}", q, NoValue)
              /\ searched' = 1
              /\ lookup' = None
              /\ Scalars(memory)' = Scalars(memory)
              /\ memory'.conversation_history =
                    Append(memory.conversation_history,
                           [user_input   |-> q,
                            bot_response |-> response',
                            intent       |-> "product_search"])
      ]_vars

\* the product search raised in a turn made after a location was confirmed
C23_Witness ==
    /\ TurnOf(PRODUCT_SEARCH)
    /\ prev.current_state = LOCATION_CONFIRMED
    /\ searched = 1
    /\ response.msg = "Sorry, I'm having trouble searching for products right now. Please try again later."
    /\ Scalars(memory) = Scalars(prev)

---------------------------------------------------------------------------
\* Properties of the HTTP service (SpecHttp)

\* C24: requests to /chat, /chat/state and /chat/reset do not interleave
\* inside a turn: between the respond call of a /chat request and its return
\* no other request touches the memory, and the conversation_state that
\* /chat returns is the memory right after that same respond call.
C24_TurnsDoNotInterleave ==
    \A c \in Clients :
        /\ requests[c].pc = "responded" =>
                /\ running = c
                /\ Some(memory) = requests[c].after
        /\ (requests[c].kind = "chat" /\ requests[c].pc = "returned") =>
                requests[c].returned = requests[c].after

\* a /chat request has returned the state of its own turn while the reset of
\* the other client, received before that, still waits
C24_Witness ==
    /\ requests[1].kind = "chat"
    /\ requests[1].pc = "returned"
    /\ requests[1].returned = requests[1].after
    /\ requests[1].returned[1].current_state # INITIAL
    /\ requests[2].kind = "reset"
    /\ requests[2].pc = "received"

\* what GET /chat/state gives client d
Observed(d) == get_conversation_state(memory)

\* C25: each client has a conversation memory of its own: a /chat turn or a
\* /chat/reset of one client changes nothing of what another client observes.
C25_SessionsAreIsolated ==
    [][ \A c \in Clients : \A co \in CollaboratorOutcome :
          (ChatRespond(c, co) \/ PostReset(c)) =>
              \A d \in Clients \ {c} : Observed(d)' = Observed(d)
      ]_vars

---------------------------------------------------------------------------
\* Properties of the memory over a conversation (Spec)

\* the confidence score that goes with each state, in hundredths
ConfidenceOf(s) ==
    IF s = INITIAL THEN 0
    ELSE IF s = LOCATION_CONFIRMED THEN 80
    ELSE IF s = OUTLET_CONFIRMED THEN 90
    ELSE 95

\* C26: in every state reached by respond and reset_conversation calls the
\* confidence score is the one of current_state: 0.0 for INITIAL, 0.8 for
\* LOCATION_CONFIRMED, 0.9 for OUTLET_CONFIRMED, 0.95 for COMPLETED; it lies
\* in [0, 1].
C26_ConfidenceFollowsState ==
    /\ memory.current_state \in ConversationState
    /\ memory.confidence_score = ConfidenceOf(memory.current_state)
    /\ memory.confidence_score >= 0
    /\ memory.confidence_score <= 100

\* a conversation that was completed, then reset
C26_Witness ==
    /\ lastCall = "reset"
    /\ prev.current_state = COMPLETED
    /\ prev.confidence_score = 95
    /\ memory.current_state = INITIAL
    /\ memory.confidence_score = 0
    /\ Len(memory.conversation_history) = 3

\* C27: memory.outlet changes only in a time-inquiry turn whose query names
\* an outlet, or on reset; memory.location changes only in an outlet-inquiry
\* turn whose query names a location, or on reset.  So the location stays
\* when an outlet is confirmed, the outlet stays when a location is
\* confirmed, and a time follow-up without an outlet name made after that
\* asks the directory about the outlet remembered.
C27_LocationAndOutletIndependent ==
    /\ memory.outlet # prev.outlet =>
            \/ lastCall = "reset"
            \/ (TurnOf(TIME_INQUIRY) /\ Extracted[query].outlet # None)
    /\ memory.location # prev.location =>
            \/ lastCall = "reset"
            \/ (TurnOf(OUTLET_INQUIRY) /\ Extracted[query].location # None)
    /\ (TurnOf(TIME_INQUIRY) /\ Extracted[query].outlet = None /\ prev.outlet # None) =>
            /\ memory.outlet = prev.outlet
            /\ lookup = HoursOf(prev.outlet[1])

\* an outlet was confirmed, then a location, then the time is asked without
\* an outlet name
C27_Witness ==
    /\ TurnOf(TIME_INQUIRY)
    /\ Extracted[query].outlet = None
    /\ prev.current_state = LOCATION_CONFIRMED
    /\ prev.location # None
    /\ prev.outlet # None
    /\ memory.location = prev.location
    /\ lookup = HoursOf(prev.outlet[1])

---------------------------------------------------------------------------
\* Properties of the state update in one turn (SpecShort)

\* C28: location, outlet, current_state and confidence_score after a respond
\* call are the same whatever the collaborators return: they are those the
\* call leaves with any other outcome of the lookup or the search; a lookup
\* that fails or returns nothing leaves the state advanced all the same.
C28_StateIgnoresCollaborators ==
    lastCall = "respond" =>
        /\ \A co \in CollaboratorOutcome :
                Scalars(respond(prev, query, co).memory) = Scalars(memory)
        /\ lookup # None =>
                memory.current_state \in {LOCATION_CONFIRMED, OUTLET_CONFIRMED, COMPLETED}

\* the directory raised in the follow-up that completed the conversation
C28_Witness ==
    /\ TurnOf(TIME_INQUIRY)
    /\ lookup # None
    /\ response.msg = "I'm having trouble accessing outlet information right now. Please try again later."
    /\ prev.current_state = OUTLET_CONFIRMED
    /\ memory.current_state = COMPLETED
    /\ memory.confidence_score = 95

\* C29: the memory writes of the handlers repeat what update_state wrote:
\* after a respond call that reached update_state, location, outlet,
\* current_state and confidence_score are those right after update_state.
C29_HandlerWritesRedundant ==
    (lastCall = "respond" /\ ~is_blank(query)) =>
        Scalars(memory) =
            Scalars(update_state(prev, Classified[query][1], Extracted[query]))

\* an outlet inquiry naming a location, made when an outlet was confirmed:
\* the handler writes the location and the state again
C29_Witness ==
    /\ TurnOf(OUTLET_INQUIRY)
    /\ Extracted[query].location # None
    /\ prev.current_state = OUTLET_CONFIRMED
    /\ prev.location = None
    /\ memory.location = Extracted[query].location
    /\ memory.current_state = LOCATION_CONFIRMED
    /\ memory.confidence_score = 80

---------------------------------------------------------------------------
\* Properties of the state update for a classified query (SpecClassify)

\* C30: when a query classified TIME_INQUIRY holds one of the outlet names of
\* the fallback of update_state, extract_entities has found an outlet, so
\* rule 2 applies; when the fallback is reached it finds no name and leaves
\* the memory as it is.
C30_FallbackNeverWrites ==
    result # None =>
        /\ any_in(outlet_names, lower(query)) => result[1].entities.outlet # None
        /\ (result[1].intent = TIME_INQUIRY /\ result[1].entities.outlet = None) =>
                /\ update_state_fallback(memory, result[1].entities) = memory
                /\ update_state(memory, TIME_INQUIRY, result[1].entities) = memory

\* a time inquiry of two words that holds an outlet name of the fallback:
\* rule 2 writes the outlet found by the extractor
C30_Witness ==
    /\ result # None
    /\ typed = 2
    /\ result[1].intent = TIME_INQUIRY
    /\ any_in(outlet_names, lower(query))
    /\ result[1].entities.outlet # None
    /\ update_state(memory, TIME_INQUIRY, result[1].entities).outlet = result[1].entities.outlet

===========================================================================
